---- MODULE Spec2Model ----
(***************************************************************************)
(* Model of the issue-catalog scripts of .github/scripts:                  *)
(*   - parse_issues_file (the line state machine shared by the scripts),   *)
(*   - main / get_existing_issues / create_issue of                        *)
(*     check_and_create_issues.py,                                         *)
(*   - main / create_issue of create_issues_robust.py,                     *)
(*   - main / close_duplicate_issues of close_duplicates.py.               *)
(* Text is modelled as sequences of one-character strings, so that strip,  *)
(* startswith, replace, split and the header regular expression are        *)
(* computed character by character the way Python computes them.           *)
(***************************************************************************)
EXTENDS Integers, Sequences, FiniteSets, TLC

VARIABLES
    \* ---- parse_issues_file ----
    lines,            \* the lines read so far (f.readlines(), consumed prefix)
    i,                \* loop index
    issues,           \* list of records
    current_issue,    \* <<>> for None, <<record>> otherwise
    current_section,  \* "none" | "description" | "objectives" | "acceptance"
    in_issue,         \* BOOLEAN
    pc,               \* control point of the running function
    \* ---- main ----
    script,           \* which script runs: "check" | "robust" ("none": the parser alone)
    auto_yes,         \* '--yes' or '-y' given (create_issues_robust.py)
    remote,           \* the tracker: titles of its issues, the issue id is the index
    existing_issues,  \* dict title -> number built by get_existing_issues
    missing_issues,   \* list of records absent from existing_issues
    present,          \* the printed pairs (record number, existing number)
    response,         \* the answer given to input()
    idx,              \* number of records the creation loop has processed
    created,
    failed,
    urls,
    reported,         \* per processed record: TRUE for a Creee line, FALSE for an Echec line
    sleeps,           \* number of time.sleep calls made
    calls,            \* the calls made to gh, in order
    exit_status,      \* -1 while running, else the status of the process
    repo,             \* <<>> for None, else <<the repository name>>
    \* ---- close_duplicates.py ----
    start_num,        \* arguments of close_duplicate_issues
    end_num,
    issue_num,        \* the next value of the range iterator
    closed

parseVars == <<lines, i, issues, current_issue, current_section, in_issue>>
closeVars == <<start_num, end_num, issue_num, closed>>
mainVars == <<script, auto_yes, remote, existing_issues, missing_issues, present,
              response, idx, created, failed, urls, reported, sleeps, calls,
              exit_status, repo, closeVars>>

----------------------------------------------------------------------------
(* Bounds of the model *)

\* longest document read by the parser on its own
MaxLines == 5
\* longest ISSUES.md given to a whole run of a script
MaxDocLines == 3
\* Ids from the default start that a run of close_duplicates.py may cover
MaxSpan == 3

----------------------------------------------------------------------------
(* Python string primitives on sequences of characters *)

\* str.isspace() characters that can occur in the modelled text
Whitespace == {" ", "\t", "\n", "\r"}

Digits == {"0", "1", "2", "3", "4", "5", "6", "7", "8", "9"}

DigitValue(c) ==
    CASE c = "0" -> 0 [] c = "1" -> 1 [] c = "2" -> 2 [] c = "3" -> 3
      [] c = "4" -> 4 [] c = "5" -> 5 [] c = "6" -> 6 [] c = "7" -> 7
      [] c = "8" -> 8 [] c = "9" -> 9

RECURSIVE LStrip(_)
LStrip(s) ==
    IF s = <<>> THEN s
    ELSE IF Head(s) \in Whitespace THEN LStrip(Tail(s)) ELSE s

RECURSIVE RStrip(_)
RStrip(s) ==
    IF s = <<>> THEN s
    ELSE IF s[Len(s)] \in Whitespace THEN RStrip(SubSeq(s, 1, Len(s) - 1)) ELSE s

\* str.strip()
Strip(s) == RStrip(LStrip(s))

\* str.startswith(p)
StartsWith(s, p) == Len(s) >= Len(p) /\ SubSeq(s, 1, Len(p)) = p

Drop(s, n) == SubSeq(s, n + 1, Len(s))

\* str.replace(pat, ''): every non-overlapping occurrence, left to right
RECURSIVE RemoveAll(_, _)
RemoveAll(s, pat) ==
    IF s = <<>> THEN s
    ELSE IF StartsWith(s, pat) THEN RemoveAll(Drop(s, Len(pat)), pat)
    ELSE <<Head(s)>> \o RemoveAll(Tail(s), pat)

\* str.split(sep) for a one-character separator: always at least one token
RECURSIVE SplitAt(_, _, _)
SplitAt(s, sep, cur) ==
    IF s = <<>> THEN <<cur>>
    ELSE IF Head(s) = sep THEN <<cur>> \o SplitAt(Tail(s), sep, <<>>)
    ELSE SplitAt(Tail(s), sep, Append(cur, Head(s)))

Split(s, sep) == SplitAt(s, sep, <<>>)

\* length of the longest prefix of digits (greedy \d+)
RECURSIVE DigitRun(_)
DigitRun(s) ==
    IF s = <<>> \/ Head(s) \notin Digits THEN 0 ELSE 1 + DigitRun(Tail(s))

\* int() of a string of decimal digits
RECURSIVE ToInt(_)
ToInt(ds) ==
    IF ds = <<>> THEN 0
    ELSE 10 * ToInt(SubSeq(ds, 1, Len(ds) - 1)) + DigitValue(ds[Len(ds)])

\* str + str for a list of strings (used by "\n\n".join)
RECURSIVE Join(_, _)
Join(parts, sep) ==
    IF parts = <<>> THEN <<>>
    ELSE IF Len(parts) = 1 THEN parts[1]
    ELSE parts[1] \o sep \o Join(Tail(parts), sep)

----------------------------------------------------------------------------
(* Literals of the grammar *)

HeaderPrefix == <<"#", "#", "#", " ", "I", "s", "s", "u", "e", " ", "#">>
LabelsMarker == <<"*", "*", "L", "a", "b", "e", "l", "s", ":", "*", "*">>
DescriptionMarker ==
    <<"*", "*", "D", "e", "s", "c", "r", "i", "p", "t", "i", "o", "n", ":", "*", "*">>
ObjectifsMarker ==
    <<"*", "*", "O", "b", "j", "e", "c", "t", "i", "f", "s", ":", "*", "*">>
AcceptanceMarker ==
    <<"*", "*", "A", "c", "c", "e", "p", "t", "a", "n", "c", "e", " ",
      "C", "r", "i", "t", "e", "r", "i", "a", ":", "*", "*">>
Terminator == <<"-", "-", "-">>
\* the backquote character (a string of the module cannot hold it)
Backtick == "BACKQUOTE"
NL == <<"\n">>

----------------------------------------------------------------------------
(* The input alphabet: the lines a document of the model is made of *)

HeaderLine(digits, title) == HeaderPrefix \o digits \o <<":", " ">> \o title \o NL

\* "### Issue #2: Ab"
LineHeader2 == HeaderLine(<<"2">>, <<"A", "b">>)
\* "### Issue #1: Cd" (a lower number that arrives later in the document)
LineHeader1 == HeaderLine(<<"1">>, <<"C", "d">>)
\* "### Issue #1:  " a header line whose title is blank
LineHeaderBlank == HeaderLine(<<"1">>, <<" ">>)
\* **Labels:** [bq]bug[bq], ,'ui',[bq][bq]
\* (two decorated tokens, a blank token, a token made of decoration only)
LineLabels ==
    LabelsMarker \o <<" ", Backtick, "b", "u", "g", Backtick, ",", " ", ",",
                      "'", "u", "i", "'", ",", Backtick, Backtick>> \o NL
LineDescription == DescriptionMarker \o NL
LineObjectifs == ObjectifsMarker \o NL
LineAcceptance == <<" ">> \o AcceptanceMarker \o NL
LineTerminator == Terminator \o NL
LineA == <<"a">> \o NL
LineB == <<"b">> \o NL
LineBlank == NL

----------------------------------------------------------------------------
(* parse_issues_file *)

None == <<>>
Some(x) == <<x>>

\* re.match(r'^### Issue #(\d+): (.+)$', s): None, or Some of the two groups
HeaderMatch(s) ==
    IF ~StartsWith(s, HeaderPrefix) THEN None
    ELSE LET rest == Drop(s, Len(HeaderPrefix))
             n == DigitRun(rest)
             after == Drop(rest, n)
             tail == Drop(after, 2)
             \* '$' also matches just before a final newline
             g2 == IF tail # <<>> /\ tail[Len(tail)] = "\n"
                   THEN SubSeq(tail, 1, Len(tail) - 1) ELSE tail
         IN IF /\ n >= 1
               /\ StartsWith(after, <<":", " ">>)
               /\ Len(g2) >= 1
               /\ \A k \in 1..Len(g2) : g2[k] # "\n"
            THEN Some([g1 |-> SubSeq(rest, 1, n), g2 |-> g2])
            ELSE None

\* (variant: the regular expression applied to the line as read)
HeaderOfUnstripped(line) == HeaderMatch(line)

\* line 27: the regular expression is applied to line.strip()
HeaderOf(line) == HeaderMatch(Strip(line))

\* lines 34-41: the record a header opens
NewIssue(m) ==
    [number |-> ToInt(m.g1), title |-> Strip(m.g2), labels |-> <<>>,
     description |-> <<>>, objectives |-> <<>>, acceptance |-> <<>>]

\* line 55: l.strip().replace(backquote, '').replace("'", '')
CleanLabel(l) == RemoveAll(RemoveAll(Strip(l), <<Backtick>>), <<"'">>)

\* line 57: the filter of the comprehension
KeepToken(l) == Strip(l) # <<>>

RECURSIVE MapClean(_)
MapClean(toks) ==
    IF toks = <<>> THEN <<>>
    ELSE (IF KeepToken(Head(toks)) THEN <<CleanLabel(Head(toks))>> ELSE <<>>)
         \o MapClean(Tail(toks))

\* lines 53-58
LabelsOf(line) == MapClean(Split(Strip(RemoveAll(line, LabelsMarker)), ","))

\* lines 63-74: the section a marker line selects, "none" for any other line
SectionOf(line) ==
    IF Strip(line) = DescriptionMarker THEN "description"
    ELSE IF Strip(line) = ObjectifsMarker THEN "objectives"
    ELSE IF Strip(line) = AcceptanceMarker THEN "acceptance"
    ELSE "none"

\* The branch of the loop body a line takes, in the order the code tests them
Branch(line, inIssue) ==
    IF HeaderOf(line) # None THEN "header"
    ELSE IF ~inIssue THEN "skip"
    ELSE IF StartsWith(Strip(line), LabelsMarker) THEN "labels"
    ELSE IF SectionOf(line) # "none" THEN "section"
    ELSE IF Strip(line) = Terminator THEN "terminator"
    ELSE "content"

\* The parser's local state as one value
ParserState(iss, cur, sec, inI, r) ==
    [issues |-> iss, current_issue |-> cur, current_section |-> sec,
     in_issue |-> inI, raised |-> r]

\* (variant: in_issue starting out True)
InitialParserStateInIssue == ParserState(<<>>, None, "none", TRUE, FALSE)

\* lines 17-20
InitialParserState == ParserState(<<>>, None, "none", FALSE, FALSE)

\* (variant: line 43 left out, the section pointer survives the header)
OnHeaderKeepsSection(st, line) ==
    ParserState(
        IF st.current_issue # None
        THEN Append(st.issues, st.current_issue[1]) ELSE st.issues,
        Some(NewIssue(HeaderOf(line)[1])), st.current_section, TRUE, st.raised)

\* lines 28-45: flush the record still referenced, open a new one
OnHeader(st, line) ==
    ParserState(
        IF st.current_issue # None
        THEN Append(st.issues, st.current_issue[1]) ELSE st.issues,
        Some(NewIssue(HeaderOf(line)[1])), "none", TRUE, st.raised)

\* lines 47-49
OnSkip(st, line) == st

\* lines 52-60: subscripting None raises TypeError
OnLabels(st, line) ==
    IF st.current_issue = None THEN [st EXCEPT !.raised = TRUE]
    ELSE [st EXCEPT !.current_issue =
              Some([st.current_issue[1] EXCEPT !.labels = LabelsOf(line)])]

\* lines 63-74
OnSection(st, line) == [st EXCEPT !.current_section = SectionOf(line)]

\* (variant: the terminator appends the record and keeps referencing it)
OnTerminatorEmits(st, line) ==
    [st EXCEPT !.in_issue = FALSE, !.current_section = "none",
               !.issues = @ \o st.current_issue]

\* (variant: the terminator resets the section pointer only)
OnTerminatorKeepsOpen(st, line) == [st EXCEPT !.current_section = "none"]

\* lines 77-81: the record stays referenced by current_issue, it is not appended
OnTerminator(st, line) == [st EXCEPT !.in_issue = FALSE, !.current_section = "none"]

\* (variant: line 84 without the test of line.strip())
OnContentKeepsBlank(st, line) ==
    IF st.current_section # "none"
    THEN IF st.current_issue = None THEN [st EXCEPT !.raised = TRUE]
         ELSE [st EXCEPT !.current_issue =
                   Some([st.current_issue[1] EXCEPT ![st.current_section] = @ \o line])]
    ELSE st

\* lines 84-92
OnContent(st, line) ==
    IF st.current_section # "none" /\ Strip(line) # <<>>
    THEN IF st.current_issue = None THEN [st EXCEPT !.raised = TRUE]
         ELSE [st EXCEPT !.current_issue =
                   Some([st.current_issue[1] EXCEPT ![st.current_section] = @ \o line])]
    ELSE st

\* lines 24-92: one iteration of the loop
Step(st, line) ==
    LET b == Branch(line, st.in_issue)
    IN CASE b = "header" -> OnHeader(st, line)
         [] b = "skip" -> OnSkip(st, line)
         [] b = "labels" -> OnLabels(st, line)
         [] b = "section" -> OnSection(st, line)
         [] b = "terminator" -> OnTerminator(st, line)
         [] b = "content" -> OnContent(st, line)

\* lines 99-102
CleanFields(issue) ==
    [issue EXCEPT !.description = Strip(@), !.objectives = Strip(@),
                  !.acceptance = Strip(@)]

\* sorted(issues, key=number): stable insertion of x into a sorted list
RECURSIVE InsertSorted(_, _)
InsertSorted(x, s) ==
    IF s = <<>> THEN <<x>>
    ELSE IF s[Len(s)].number <= x.number THEN Append(s, x)
    ELSE Append(InsertSorted(x, SubSeq(s, 1, Len(s) - 1)), s[Len(s)])

\* (variant: the list returned in document order)
Unsorted(s) == s

RECURSIVE SortByNumber(_)
SortByNumber(s) ==
    IF s = <<>> THEN <<>>
    ELSE InsertSorted(s[Len(s)], SortByNumber(SubSeq(s, 1, Len(s) - 1)))

\* lines 95-96: the record still referenced at the end of input is appended
FlushLast(st) ==
    IF st.current_issue # None
    THEN Append(st.issues, st.current_issue[1]) ELSE st.issues

\* lines 95-104
Finish(st) ==
    LET all == FlushLast(st)
    IN SortByNumber([k \in 1..Len(all) |-> CleanFields(all[k])])

RECURSIVE RunLoop(_, _)
RunLoop(st, doc) ==
    IF doc = <<>> \/ st.raised THEN st ELSE RunLoop(Step(st, Head(doc)), Tail(doc))

\* lines 12-104 as a function of the whole list of lines
parse_issues_file(doc) ==
    LET st == RunLoop(InitialParserState, doc)
    IN [raised |-> st.raised, issues |-> IF st.raised THEN <<>> ELSE Finish(st)]

----------------------------------------------------------------------------
(* parse_issues_file, one loop iteration at a time *)

\* The documents read under SpecParse: every sequence of at most MaxLines lines
\* drawn from one of these families of lines (blocks with their content,
\* labels and malformed headers, the three sections)
LineFamilies ==
    {{LineHeader2, LineHeader1, LineTerminator, LineDescription, LineA,
      LineBlank, LineB},
     {LineHeader2, LineHeaderBlank, LineLabels, LineTerminator,
      LineDescription, LineA},
     {LineHeader1, LineDescription, LineObjectifs, LineAcceptance, LineA,
      LineBlank}}

LineSet == UNION LineFamilies

InOneFamily(doc) ==
    \E family \in LineFamilies : \A k \in 1..Len(doc) : doc[k] \in family

CurrentState == ParserState(issues, current_issue, current_section, in_issue, FALSE)

Consume(line, b) ==
    /\ pc = "loop"
    /\ Len(lines) < MaxLines
    /\ InOneFamily(Append(lines, line))
    /\ Branch(line, in_issue) = b
    /\ LET st == Step(CurrentState, line)
       IN /\ issues' = st.issues
          /\ current_issue' = st.current_issue
          /\ current_section' = st.current_section
          /\ in_issue' = st.in_issue
          /\ pc' = IF st.raised THEN "raised" ELSE "loop"
    /\ lines' = Append(lines, line)
    /\ i' = i + 1
    /\ UNCHANGED mainVars

ParseHeader == \E line \in LineSet : Consume(line, "header")
ParseSkip == \E line \in LineSet : Consume(line, "skip")
ParseLabels == \E line \in LineSet : Consume(line, "labels")
ParseSection == \E line \in LineSet : Consume(line, "section")
ParseTerminator == \E line \in LineSet : Consume(line, "terminator")
ParseContent == \E line \in LineSet : Consume(line, "content")

\* end of input: i = len(lines)
ParseReturn ==
    /\ pc = "loop"
    /\ issues' = Finish(CurrentState)
    /\ pc' = "returned"
    /\ UNCHANGED <<lines, i, current_issue, current_section, in_issue>>
    /\ UNCHANGED mainVars

\* The variables of main before main has run
MainIdle ==
    /\ existing_issues = <<>>
    /\ missing_issues = <<>>
    /\ present = <<>>
    /\ response = <<>>
    /\ idx = 0
    /\ created = 0
    /\ failed = 0
    /\ urls = <<>>
    /\ reported = <<>>
    /\ sleeps = 0
    /\ calls = <<>>
    /\ exit_status = -1
    /\ repo = None

\* The variables of close_duplicates.py in the runs of the other scripts
CloseIdle ==
    /\ start_num = 0
    /\ end_num = 0
    /\ issue_num = 0
    /\ closed = 0

ParseInit ==
    /\ lines = <<>>
    /\ i = 0
    /\ issues = InitialParserState.issues
    /\ current_issue = InitialParserState.current_issue
    /\ current_section = InitialParserState.current_section
    /\ in_issue = InitialParserState.in_issue
    /\ pc = "loop"
    /\ script = "none"
    /\ auto_yes = FALSE
    /\ remote = <<>>
    /\ MainIdle
    /\ CloseIdle

ParseNext ==
    \/ ParseHeader
    \/ ParseSkip
    \/ ParseLabels
    \/ ParseSection
    \/ ParseTerminator
    \/ ParseContent
    \/ ParseReturn

vars == <<parseVars, pc, mainVars>>

SpecParse == ParseInit /\ [][ParseNext]_vars

----------------------------------------------------------------------------
(* The remote tracker and the gh collaborator *)

TitleAb == <<"A", "b">>
TitleCd == <<"C", "d">>
\* the same title in another case, and with a trailing space
TitleAbLower == <<"a", "b">>
TitleAbSpace == <<"A", "b", " ">>

\* The trackers a run of check_and_create_issues.py meets when it starts
\* (oldest issue first)
RemoteInits ==
    {<<>>, <<TitleAb>>, <<TitleCd>>, <<TitleCd, TitleAb>>, <<TitleAbLower>>,
     <<TitleCd, TitleAbSpace>>}

\* create_issues_robust.py never reads the tracker: it starts on an empty one
RemoteInitsOf(s) == IF s = "check" THEN RemoteInits ELSE {<<>>}

\* what gh prints on stderr when it fails
ErrLabelNotFound ==
    <<"L", "a", "b", "e", "l", " ", "x", " ", "N", "o", "t", " ", "F", "o", "u", "n", "d">>
ErrNotFound == <<"r", "e", "p", "o", " ", "n", "o", "t", " ", "f", "o", "u", "n", "d">>
ErrTexts == {ErrLabelNotFound, ErrNotFound}

\* what gh issue create prints on stdout when it succeeds:
\* the URL of the issue, some text without URL, or nothing
Outputs == {"url", "text", "empty"}

UpperCase == <<"A", "B", "C", "D", "E", "F", "G", "H", "I", "J", "K", "L", "M",
               "N", "O", "P", "Q", "R", "S", "T", "U", "V", "W", "X", "Y", "Z">>
LowerCase == <<"a", "b", "c", "d", "e", "f", "g", "h", "i", "j", "k", "l", "m",
               "n", "o", "p", "q", "r", "s", "t", "u", "v", "w", "x", "y", "z">>

LowerChar(c) ==
    IF \E k \in 1..26 : UpperCase[k] = c
    THEN LowerCase[CHOOSE k \in 1..26 : UpperCase[k] = c] ELSE c

\* str.lower()
Lower(s) == [k \in 1..Len(s) |-> LowerChar(s[k])]

\* pat in s
Contains(s, pat) ==
    \E k \in 0..(Len(s) - Len(pat)) : SubSeq(s, k + 1, k + Len(pat)) = pat

\* (variant: "not found" alone is taken for the signature)
NotFoundSignature(stderr) ==
    Contains(Lower(stderr), <<"n", "o", "t", " ", "f", "o", "u", "n", "d">>)

\* create_issues_robust.py line 156
LabelSignature(stderr) ==
    /\ Contains(Lower(stderr), <<"l", "a", "b", "e", "l">>)
    /\ Contains(Lower(stderr), <<"n", "o", "t", " ", "f", "o", "u", "n", "d">>)

\* --limit 200 of gh issue list
ListLimit == 200

Min(a, b) == IF a <= b THEN a ELSE b

\* stdout of gh issue list: the newest issues first, at most ListLimit of them
ListOutput(tracker) ==
    [k \in 1..Min(Len(tracker), ListLimit) |->
        [number |-> Len(tracker) - k + 1, title |-> tracker[Len(tracker) - k + 1]]]

\* {issue['title']: issue['number'] for issue in issues}: the last entry of a title wins
DictOf(list) ==
    [t \in {list[k].title : k \in 1..Len(list)} |->
        list[CHOOSE k \in 1..Len(list) :
                /\ list[k].title = t
                /\ \A m \in (k + 1)..Len(list) : list[m].title # t].number]

\* check_and_create_issues.py lines 106-121: {} when the call or the decoding fails
get_existing_issues(tracker, ok) == IF ok THEN DictOf(ListOutput(tracker)) ELSE <<>>

\* (variant: the title looked up among the numbers, existing_issues.values(),
\* where it is never found)
TitleAlwaysMissing(title, index) == TRUE

\* line 203: issue['title'] not in existing_issues
TitleMissing(title, index) == title \notin DOMAIN index

\* (variant: a record is left out when an earlier record has its title, as if
\* the title had been entered in the index)
MissingOfDistinct(recs, index) ==
    LET keep == {k \in 1..Len(recs) :
                    /\ recs[k].title \notin DOMAIN index
                    /\ \A m \in 1..(k - 1) : recs[m].title # recs[k].title}
    IN [j \in 1..Cardinality(keep) |->
           recs[CHOOSE k \in keep : Cardinality({m \in keep : m <= k}) = j]]

\* lines 201-204
RECURSIVE MissingOf(_, _)
MissingOf(recs, index) ==
    IF recs = <<>> THEN <<>>
    ELSE (IF TitleMissing(Head(recs).title, index) THEN <<Head(recs)>> ELSE <<>>)
         \o MissingOf(Tail(recs), index)

\* lines 205-207: the already-present lines printed
RECURSIVE PresentOf(_, _)
PresentOf(recs, index) ==
    IF recs = <<>> THEN <<>>
    ELSE (IF TitleMissing(Head(recs).title, index) THEN <<>>
          ELSE <<[issue |-> Head(recs), existing_num |-> index[Head(recs).title]]>>)
         \o PresentOf(Tail(recs), index)

\* lines 147-149 (136-138): the labels passed with --label
NonEmpty(labels) == SelectSeq(labels, LAMBDA l : l # <<>>)

\* the value create_issue returns for a successful call: the URL matched in the
\* output, else the stripped output itself
Returned(out, id) ==
    IF out = "url" THEN [kind |-> "url", id |-> id]
    ELSE IF out = "text" THEN [kind |-> "text", id |-> 0]
    ELSE [kind |-> "empty", id |-> 0]

NoneReturned == [kind |-> "none", id |-> 0]

\* 'if url:' in main: None and the empty string are falsy
Truthy(url) == url.kind \in {"url", "text"}

\* the headings of create_issue's body_parts
HeadingDescription ==
    <<"#", "#", " ", "D", "e", "s", "c", "r", "i", "p", "t", "i", "o", "n",
      "\n", "\n">>
HeadingObjectifs ==
    <<"#", "#", " ", "O", "b", "j", "e", "c", "t", "i", "f", "s", "\n", "\n">>
HeadingAcceptance ==
    <<"#", "#", " ", "A", "c", "c", "e", "p", "t", "a", "n", "c", "e", " ",
      "C", "r", "i", "t", "e", "r", "i", "a", "\n", "\n">>

\* (variant: every heading written, the empty sections included)
BodyPartsAll(issue) ==
    <<HeadingDescription \o issue.description,
      HeadingObjectifs \o issue.objectives,
      HeadingAcceptance \o issue.acceptance>>

\* check lines 133-139, robust lines 116-122
BodyParts(issue) ==
    (IF issue.description # <<>>
     THEN <<HeadingDescription \o issue.description>> ELSE <<>>)
    \o (IF issue.objectives # <<>>
        THEN <<HeadingObjectifs \o issue.objectives>> ELSE <<>>)
    \o (IF issue.acceptance # <<>>
        THEN <<HeadingAcceptance \o issue.acceptance>> ELSE <<>>)

\* check line 141, robust line 124: "\n\n".join(body_parts)
ComposeBody(issue) == Join(BodyParts(issue), <<"\n", "\n">>)

\* one call of gh issue create, as logged
\* (err: what gh printed on stderr, empty when the call succeeded)
CreateCall(k, issue, labels, err, tracker) ==
    [op |-> "create", rec |-> k, number |-> issue.number, title |-> issue.title,
     body |-> ComposeBody(issue),
     labels |-> labels, ok |-> (err = <<>>), err |-> err,
     existed |-> \E n \in 1..Len(tracker) : tracker[n] = issue.title]

\* one call of gh issue edit --add-label, as logged
EditCall(k, issue, label, ok) ==
    [op |-> "edit", rec |-> k, number |-> issue.number, title |-> issue.title,
     body |-> <<>>,
     labels |-> <<label>>, ok |-> ok, err |-> <<>>, existed |-> TRUE]

ListCall(ok) ==
    [op |-> "list", rec |-> 0, number |-> 0, title |-> <<>>, body |-> <<>>,
     labels |-> <<>>,
     ok |-> ok, err |-> <<>>, existed |-> FALSE]

----------------------------------------------------------------------------
(* create_issue *)

\* What one call of create_issue leaves behind: the value returned, the calls
\* made to gh, and the tracker afterwards.
Attempt(url, made, tracker) == [url |-> url, made |-> made, tracker |-> tracker]

\* lines 151-164 (140-153): the call with the labels succeeds
CreateSucceeds(k, issue, tracker, out) ==
    Attempt(Returned(out, Len(tracker) + 1),
            <<CreateCall(k, issue, NonEmpty(issue.labels), <<>>, tracker)>>,
            Append(tracker, issue.title))

\* lines 165-167 (185-189): the call fails and None is returned
CreateFails(k, issue, tracker, err) ==
    Attempt(NoneReturned,
            <<CreateCall(k, issue, NonEmpty(issue.labels), err, tracker)>>,
            tracker)

\* check_and_create_issues.py lines 123-167: every outcome of create_issue
CheckAttempts(k, issue, tracker) ==
    {CreateSucceeds(k, issue, tracker, out) : out \in Outputs}
        \cup {CreateFails(k, issue, tracker, err) : err \in ErrTexts}

\* create_issues_robust.py lines 170-179: one edit call per non-empty label,
\* att[j] telling whether the j-th of them succeeds; a failure is passed over
AttachCalls(k, issue, att) ==
    [j \in 1..Len(NonEmpty(issue.labels)) |->
        EditCall(k, issue, NonEmpty(issue.labels)[j], att[j])]

\* create_issues_robust.py lines 157-184: the call without labels
RetryAttempts(k, issue, tracker, err) ==
    LET first == CreateCall(k, issue, NonEmpty(issue.labels), err, tracker)
        again(err2) == CreateCall(k, issue, <<>>, err2, tracker)
        after == Append(tracker, issue.title)
    IN  \* lines 168-180: a URL is matched, the labels are added one by one
        {Attempt(Returned("url", Len(after)),
                 <<first, again(<<>>)>> \o AttachCalls(k, issue, att), after) :
            att \in [1..Len(NonEmpty(issue.labels)) -> BOOLEAN]}
        \* line 181: no URL in the output, the output is returned as it is
        \cup {Attempt(Returned(out, Len(after)), <<first, again(<<>>)>>, after) :
                out \in {"text", "empty"}}
        \* lines 182-184
        \cup {Attempt(NoneReturned, <<first, again(err2)>>, tracker) :
                err2 \in ErrTexts}

\* create_issues_robust.py lines 106-189: every outcome of create_issue
RobustAttempts(k, issue, tracker) ==
    {CreateSucceeds(k, issue, tracker, out) : out \in Outputs}
        \cup UNION {IF LabelSignature(err)
                    THEN RetryAttempts(k, issue, tracker, err)
                    ELSE {CreateFails(k, issue, tracker, err)} : err \in ErrTexts}

----------------------------------------------------------------------------
(* main of check_and_create_issues.py and of create_issues_robust.py *)

Scripts == {"check", "robust"}

\* The lines an ISSUES.md given to a run is made of
MainLines == {LineHeader1, LineHeader2, LineLabels}

Docs == UNION {[1..n -> MainLines] : n \in 0..MaxDocLines}

\* the answers typed at the prompt
Responses == {<<"y">>, <<"Y">>, <<"n">>, <<>>}

\* the list the creation loop iterates over
Batch == IF script = "check" THEN missing_issues ELSE issues

\* (variant: a pause after every record)
PauseAlways(issue, batch) == TRUE

\* check line 241: issue != missing_issues[-1]; robust line 261: number < len(issues)
PauseAfter(issue, batch) ==
    IF script = "check" THEN issue # batch[Len(batch)]
    ELSE issue.number < Len(batch)

\* (variant: the loop left at the first record that fails)
AdvanceStopsOnFailure(k, url) == IF Truthy(url) THEN k + 1 ELSE Len(Batch)

\* the for loop goes on to the next record whatever create_issue returned
\* (k: the number of records processed before this one)
Advance(k, url) == k + 1

\* (variant: the process ends with status 0 whatever the status asked for)
ExitZero(status) ==
    /\ pc' = "exited"
    /\ exit_status' = 0

\* sys.exit(status), or return status from main before the creation loop
Exit(status) ==
    /\ pc' = "exited"
    /\ exit_status' = status

\* the name gh repo view prints, or the one given on the command line
RepoName == "owner/repo"

\* check lines 170-184, robust lines 200-214, close lines 39-51:
\* detected: gh repo view succeeds; given: a repository argument is present
ResolveRepo ==
    /\ pc = "start"
    /\ \E detected \in BOOLEAN, given \in BOOLEAN :
          IF detected \/ given
          THEN /\ repo' = Some(RepoName)
               /\ pc' = IF script = "close" THEN "confirm" ELSE "parse"
               /\ UNCHANGED exit_status
          ELSE /\ repo' = None
               /\ Exit(1)
    /\ UNCHANGED <<parseVars, script, auto_yes, closeVars, remote, existing_issues,
                   missing_issues, present, response, idx, created, failed,
                   urls, reported, sleeps, calls>>

\* check lines 186-194, robust lines 216-224
ReadFile ==
    /\ pc = "parse"
    /\ \E exists \in BOOLEAN :
          LET parsed == parse_issues_file(lines)
          IN IF ~exists \/ parsed.raised
             THEN Exit(1) /\ UNCHANGED issues
             ELSE /\ issues' = parsed.issues
                  /\ pc' = IF script = "check" THEN "list" ELSE "confirm"
                  /\ UNCHANGED exit_status
    /\ UNCHANGED <<lines, i, current_issue, current_section, in_issue, script,
                   auto_yes, repo, closeVars, remote, existing_issues, missing_issues, present,
                   response, idx, created, failed, urls, reported, sleeps, calls>>

\* check lines 196-198
ListExisting ==
    /\ pc = "list"
    /\ \E ok \in BOOLEAN :
          /\ existing_issues' = get_existing_issues(remote, ok)
          /\ calls' = Append(calls, ListCall(ok))
    /\ pc' = "reconcile"
    /\ UNCHANGED <<parseVars, script, auto_yes, repo, closeVars, remote, missing_issues, present,
                   response, idx, created, failed, urls, reported, sleeps,
                   exit_status>>

\* check lines 200-215
Reconcile ==
    /\ pc = "reconcile"
    /\ missing_issues' = MissingOf(issues, existing_issues)
    /\ present' = PresentOf(issues, existing_issues)
    /\ IF missing_issues' = <<>>
       THEN Exit(0)
       ELSE pc' = "confirm" /\ UNCHANGED exit_status
    /\ UNCHANGED <<parseVars, script, auto_yes, repo, closeVars, remote, existing_issues,
                   response, idx, created, failed, urls, reported, sleeps, calls>>

\* the loop main enters once the run is confirmed
LoopOf(s) == IF s = "close" THEN "close" ELSE "loop"

\* (variant: the answer is read and the run goes on whatever it is)
ConfirmAnyAnswer ==
    /\ pc = "confirm"
    /\ \E r \in Responses : response' = r
    /\ pc' = LoopOf(script)
    /\ UNCHANGED <<parseVars, script, auto_yes, repo, closeVars, remote, existing_issues,
                   missing_issues, present, idx, created, failed, urls,
                   reported, sleeps, calls, exit_status>>

\* check lines 217-220, robust lines 232-240, close lines 55-58
Confirm ==
    /\ pc = "confirm"
    /\ IF auto_yes
       THEN pc' = LoopOf(script) /\ UNCHANGED <<response, exit_status>>
       ELSE \E r \in Responses :
               /\ response' = r
               /\ IF Lower(r) # <<"y">>
                  THEN Exit(0)
                  ELSE pc' = LoopOf(script) /\ UNCHANGED exit_status
    /\ UNCHANGED <<parseVars, script, auto_yes, repo, closeVars, remote, existing_issues,
                   missing_issues, present, idx, created, failed, urls,
                   reported, sleeps, calls>>

\* (variant: the new URL put at the head of the list)
PrependUrl(list, url) == <<url>> \o list

\* check line 234, robust line 254: urls.append(url)
AppendUrl(list, url) == Append(list, url)

\* check lines 228-242, robust lines 248-262: one iteration of the loop
LoopBody ==
    /\ pc = "loop"
    /\ idx < Len(Batch)
    /\ LET k == idx + 1
           issue == Batch[k]
       IN \E a \in IF script = "check"
                   THEN CheckAttempts(k, issue, remote)
                   ELSE RobustAttempts(k, issue, remote) :
             /\ remote' = a.tracker
             /\ calls' = calls \o a.made
             /\ IF Truthy(a.url)
                THEN /\ urls' = AppendUrl(urls, a.url)
                     /\ created' = created + 1
                     /\ UNCHANGED failed
                ELSE /\ failed' = failed + 1
                     /\ UNCHANGED <<urls, created>>
             /\ reported' = Append(reported, Truthy(a.url))
             /\ sleeps' = IF PauseAfter(issue, Batch) THEN sleeps + 1 ELSE sleeps
             /\ idx' = Advance(idx, a.url)
    /\ UNCHANGED <<parseVars, pc, script, auto_yes, repo, closeVars, existing_issues,
                   missing_issues, present, response, exit_status>>

\* check lines 244-255, robust lines 264-275
Summary ==
    /\ pc = "loop"
    /\ idx >= Len(Batch)
    /\ pc' = "done"
    /\ exit_status' = (IF failed = 0 THEN 0 ELSE 1)
    /\ UNCHANGED <<parseVars, script, auto_yes, repo, closeVars, remote, existing_issues,
                   missing_issues, present, response, idx, created, failed,
                   urls, reported, sleeps, calls>>

Init ==
    /\ script \in Scripts
    /\ auto_yes \in (IF script = "robust" THEN BOOLEAN ELSE {FALSE})
    /\ lines \in Docs
    /\ remote \in RemoteInitsOf(script)
    /\ i = 0
    /\ issues = <<>>
    /\ current_issue = None
    /\ current_section = "none"
    /\ in_issue = FALSE
    /\ MainIdle
    /\ CloseIdle
    /\ pc = "start"

Next ==
    \/ ResolveRepo
    \/ ReadFile
    \/ ListExisting
    \/ Reconcile
    \/ Confirm
    \/ LoopBody
    \/ Summary

Spec == Init /\ [][Next]_vars

\* The runs of the two scripts on documents of one block with sections:
\* after the header each of the three sections is absent, or present with a
\* text of no line, of one line, or of two lines around a blank one
SectionBodies == {<<>>, <<LineA>>, <<LineA, LineBlank, LineB>>}

SectionBlocks(marker) == {<<>>} \cup {<<marker>> \o b : b \in SectionBodies}

BodyDocs ==
    {<<LineHeader2>> \o d \o o \o a :
        d \in SectionBlocks(LineDescription),
        o \in SectionBlocks(LineObjectifs),
        a \in SectionBlocks(LineAcceptance)}

BodyInit ==
    /\ script \in Scripts
    /\ auto_yes \in (IF script = "robust" THEN BOOLEAN ELSE {FALSE})
    /\ lines \in BodyDocs
    /\ remote = <<>>
    /\ i = 0
    /\ issues = <<>>
    /\ current_issue = None
    /\ current_section = "none"
    /\ in_issue = FALSE
    /\ MainIdle
    /\ CloseIdle
    /\ pc = "start"

SpecBody == BodyInit /\ [][Next]_vars

----------------------------------------------------------------------------
(* close_duplicates.py *)

\* line 9: the default of start_num
DefaultStart == 56

\* The arguments of close_duplicate_issues: start_num is the default or the id
\* after it; end_num runs from below start_num (an empty range) to MaxSpan ids
\* from the default start.
StartNums == {DefaultStart, DefaultStart + 1}
EndNums == (DefaultStart - 2)..(DefaultStart + MaxSpan - 1)

\* one call of gh issue close, as logged
CloseCall(id, ok) ==
    [op |-> "close", rec |-> 0, number |-> id, title |-> <<>>, body |-> <<>>,
     labels |-> <<>>,
     ok |-> ok, err |-> <<>>, existed |-> TRUE]

\* (variant: the loop left at the first close call that fails)
NextIdStopsOnFailure(id, ok) == IF ok THEN id + 1 ELSE end_num + 1

\* line 16: the for loop takes the next id of range(start_num, end_num + 1)
\* whatever the call did
NextId(id, ok) == id + 1

\* close lines 16-29: one iteration of the loop
CloseBody ==
    /\ pc = "close"
    /\ issue_num <= end_num
    /\ \E ok \in BOOLEAN :
          /\ calls' = Append(calls, CloseCall(issue_num, ok))
          /\ IF ok
             THEN closed' = closed + 1 /\ UNCHANGED failed
             ELSE failed' = failed + 1 /\ UNCHANGED closed
          /\ issue_num' = NextId(issue_num, ok)
    /\ UNCHANGED <<parseVars, pc, script, auto_yes, repo, remote, existing_issues,
                   missing_issues, present, response, idx, created, urls,
                   reported, sleeps, exit_status, start_num, end_num>>

\* close lines 31-35 and 60-61: the function returns, main returns the status
CloseReturn ==
    /\ pc = "close"
    /\ issue_num > end_num
    /\ pc' = "done"
    /\ exit_status' = (IF failed = 0 THEN 0 ELSE 1)
    /\ UNCHANGED <<parseVars, script, auto_yes, repo, closeVars, remote,
                   existing_issues, missing_issues, present, response, idx,
                   created, failed, urls, reported, sleeps, calls>>

CloseInit ==
    /\ script = "close"
    /\ auto_yes = FALSE
    /\ lines = <<>>
    /\ remote = <<>>
    /\ i = 0
    /\ issues = <<>>
    /\ current_issue = None
    /\ current_section = "none"
    /\ in_issue = FALSE
    /\ MainIdle
    /\ start_num \in StartNums
    /\ end_num \in EndNums
    /\ issue_num = start_num
    /\ closed = 0
    /\ pc = "start"

CloseNext ==
    \/ ResolveRepo
    \/ Confirm
    \/ CloseBody
    \/ CloseReturn

SpecClose == CloseInit /\ [][CloseNext]_vars

\* The runs of the three scripts together
AllInit == Init \/ CloseInit

AllNext ==
    \/ Next
    \/ CloseBody
    \/ CloseReturn

SpecAll == AllInit /\ [][AllNext]_vars

----------------------------------------------------------------------------
(* Properties of parse_issues_file, checked under SpecParse *)

\* the records the parser holds: those appended, and the one still referenced
\* by current_issue until the function has appended it
HeldRecords == IF pc = "returned" THEN issues ELSE issues \o current_issue

\* the positions of the issue header lines of a document
HeaderLinesOf(doc) == {k \in 1..Len(doc) : HeaderOf(doc[k]) # None}

SameHeader(r, line) ==
    /\ r.number = NewIssue(HeaderOf(line)[1]).number
    /\ r.title = NewIssue(HeaderOf(line)[1]).title

\* C6: parse_issues_file emits exactly one record per issue header line, for
\* every sequence of lines: at each point of the loop the records appended plus
\* the one still open are as many as the header lines read, and for each header
\* the records carrying its number and title are as many as the header lines
\* carrying them (nothing dropped at the next header, nothing emitted twice
\* after a terminator, the unterminated last block kept, duplicates kept).
C6_OneRecordPerHeader ==
    /\ Len(HeldRecords) = Cardinality(HeaderLinesOf(lines))
    /\ \A k \in HeaderLinesOf(lines) :
          Cardinality({n \in 1..Len(HeldRecords) : SameHeader(HeldRecords[n], lines[k])})
              = Cardinality({m \in HeaderLinesOf(lines) :
                                HeaderOf(lines[m]) = HeaderOf(lines[k])})

\* a record closed by a terminator, the same header again, and a last block
\* without terminator: three records returned
C6_Witness ==
    /\ pc = "returned"
    /\ lines = <<LineHeader2, LineTerminator, LineHeader2, LineHeader1>>
    /\ Len(issues) = 3
    /\ issues[2].number = issues[3].number

\* the lines that reach the append rule: neither header, labels line, section
\* marker nor terminator
ContentLine(line) == Branch(line, TRUE) = "content"

C7_Step ==
    (/\ pc = "loop" /\ pc' = "loop"
     /\ Len(lines') = Len(lines) + 1
     /\ in_issue /\ current_section # "none"
     /\ ContentLine(lines'[Len(lines')]))
    => LET line == lines'[Len(lines')]
           old == current_issue[1][current_section]
       IN /\ current_issue' # None
          /\ current_issue'[1][current_section]
                = (IF Strip(line) = <<>> THEN old ELSE old \o line)
          /\ \A sec \in {"description", "objectives", "acceptance"} \ {current_section} :
                current_issue'[1][sec] = current_issue[1][sec]
          /\ issues' = issues

NoBlankLine(text) ==
    /\ text = Strip(text)
    /\ \A k \in 1..(Len(text) - 1) : ~(text[k] = "\n" /\ text[k + 1] = "\n")

C7_State ==
    /\ \A n \in 1..Len(HeldRecords) :
          \A sec \in {"description", "objectives", "acceptance"} :
             \A k \in 1..(Len(HeldRecords[n][sec]) - 1) :
                ~(HeldRecords[n][sec][k] = "\n" /\ HeldRecords[n][sec][k + 1] = "\n")
    /\ pc = "returned" =>
          \A n \in 1..Len(issues) :
             /\ NoBlankLine(issues[n].description)
             /\ NoBlankLine(issues[n].objectives)
             /\ NoBlankLine(issues[n].acceptance)
    /\ (pc = "returned"
        /\ lines = <<LineHeader2, LineDescription, LineA, LineBlank, LineB>>)
          => issues[1].description = <<"a", "\n", "b">>

\* C7: while a section pointer is set, every non-blank content line of the open
\* record (a line that is not itself a header, labels line, section marker or
\* terminator) is appended verbatim, with its newline, at the end of that
\* section's buffer and of no other; a blank line changes no buffer; so no
\* section text ever holds an empty line, and the body a, blank, b is returned
\* as "a\nb" after the final trim.
C7_ContentAppended == []C7_State /\ [][C7_Step]_vars

C7_Witness ==
    /\ pc = "returned"
    /\ lines = <<LineHeader2, LineDescription, LineA, LineBlank, LineB>>
    /\ issues[1].description = <<"a", "\n", "b">>

\* C8: no label of any record is the empty string, and no label contains a
\* backquote or a quote character.
C8_LabelsClean ==
    \A n \in 1..Len(HeldRecords) :
       \A m \in 1..Len(HeldRecords[n].labels) :
          LET label == HeldRecords[n].labels[m]
          IN /\ label # <<>>
             /\ \A k \in 1..Len(label) : label[k] \notin {Backtick, "'", "\""}

C10_TitleAndNumber ==
    \A n \in 1..Len(HeldRecords) :
       LET r == HeldRecords[n]
       IN /\ r.title # <<>>
          /\ r.number \in Nat
          /\ \E k \in 1..Len(lines) :
                LET text == Strip(lines[k])
                    d == DigitRun(Drop(text, Len(HeaderPrefix)))
                IN /\ StartsWith(text, HeaderPrefix)
                   /\ d >= 1
                   /\ r.number = ToInt(SubSeq(text, Len(HeaderPrefix) + 1,
                                              Len(HeaderPrefix) + d))
                   /\ r.title = Strip(Drop(text, Len(HeaderPrefix) + d + 2))

\* a header line with a blank title was read and gave no record
C10_Witness ==
    /\ pc = "returned"
    /\ lines = <<LineHeader2, LineHeaderBlank>>
    /\ Len(issues) = 1
    /\ issues[1].title = TitleAb

\* a document leaves the parser outside any record: it holds no issue header,
\* or a '---' line that no issue header follows
Outside(doc) ==
    \/ HeaderLinesOf(doc) = {}
    \/ \E t \in 1..Len(doc) :
          /\ Strip(doc[t]) = Terminator
          /\ \A k \in t..Len(doc) : k \notin HeaderLinesOf(doc)

\* the k-th line is not an issue header and comes when no record is open
Dead(doc, k) == k \notin HeaderLinesOf(doc) /\ Outside(SubSeq(doc, 1, k - 1))

\* the document without its dead lines
Live(doc) == SelectSeq([k \in 1..Len(doc) |-> IF Dead(doc, k) THEN <<>> ELSE doc[k]],
                       LAMBDA l : l # <<>>)

C21_Step ==
    (pc = "loop" /\ pc' = "loop" /\ Len(lines') = Len(lines) + 1) =>
       LET k == Len(lines')
           line == lines'[k]
       IN /\ (in_issue /\ Strip(line) = Terminator) =>
                /\ ~in_issue'
                /\ current_section' = "none"
                /\ issues' = issues
                /\ current_issue' = current_issue
          /\ Dead(lines', k) =>
                /\ ~in_issue /\ ~in_issue'
                /\ current_section = "none" /\ current_section' = "none"
                /\ issues' = issues
                /\ current_issue' = current_issue

C21_State ==
    /\ pc = "loop" => (in_issue <=> ~Outside(lines))
    /\ pc = "returned" => issues = parse_issues_file(Live(lines)).issues

\* C21: a '---' line read while a record is open puts the parser outside any
\* record (in_issue false, no current section) without touching a record, and
\* every line read outside a record that is not an issue header - before the
\* first header, or after a terminator: labels lines, section markers, content,
\* further terminators - leaves every record and the parser state as they
\* were; the list returned is the one returned for the document without
\* those lines.
C21_TerminatorResets == []C21_State /\ [][C21_Step]_vars

\* a section marker and a content line after the terminator, and a line before
\* the first header: the record has an empty description
C21_Witness ==
    /\ pc = "returned"
    /\ lines = <<LineA, LineHeader2, LineTerminator, LineDescription, LineA>>
    /\ Len(issues) = 1
    /\ issues[1].description = <<>>

\* the n-th smallest element of a set of numbers
Nth(S, n) == CHOOSE k \in S : Cardinality({m \in S : m <= k}) = n

\* what each line of a document is for a parser inside a record
\* (a sequence, computed once for the whole document)
LineClasses(doc) ==
    <<>> \o [k \in 1..Len(doc) |->
               IF Branch(doc[k], TRUE) = "content" /\ Strip(doc[k]) = <<>> THEN "blank"
               ELSE Branch(doc[k], TRUE)]

\* the header line that opens the block the k-th line is in (0: none),
\* cls being the classes of the lines
HeaderBefore(cls, k) ==
    IF \E h \in 1..(k - 1) : cls[h] = "header"
    THEN CHOOSE h \in 1..(k - 1) :
            cls[h] = "header" /\ \A g \in (h + 1)..(k - 1) : cls[g] # "header"
    ELSE 0

\* the k-th line is inside a record: a header precedes it in its block and no
\* terminator stands between that header and the line
InRecord(cls, k) ==
    /\ HeaderBefore(cls, k) # 0
    /\ \A t \in (HeaderBefore(cls, k) + 1)..(k - 1) : cls[t] # "terminator"

\* the section markers that precede the k-th line inside its record
MarkersBefore(cls, k) ==
    {m \in (HeaderBefore(cls, k) + 1)..(k - 1) : cls[m] = "section" /\ InRecord(cls, m)}

\* the section named by the last marker that precedes the k-th line inside
\* its record
MarkedSection(doc, cls, k) ==
    IF MarkersBefore(cls, k) = {} THEN "none"
    ELSE SectionOf(doc[CHOOSE m \in MarkersBefore(cls, k) :
                          \A n \in MarkersBefore(cls, k) : n <= m])

\* the text a section of the record opened at line h must hold: the non-blank
\* content lines of the record that come after a marker of that section
TextAfterMarker(doc, cls, h, sec) ==
    Join([k \in 1..Len(doc) |->
            IF /\ cls[k] = "content"
               /\ HeaderBefore(cls, k) = h
               /\ InRecord(cls, k)
               /\ MarkedSection(doc, cls, k) = sec
            THEN doc[k] ELSE <<>>], <<>>)

C22_State ==
    pc = "loop" =>
       LET cls == LineClasses(lines)
           heads == {k \in 1..Len(lines) : cls[k] = "header"}
       IN /\ Len(HeldRecords) = Cardinality(heads)
          /\ current_issue # None =>
                \A sec \in {"description", "objectives", "acceptance"} :
                   current_issue[1][sec]
                      = TextAfterMarker(lines, cls, HeaderBefore(cls, Len(lines) + 1), sec)
          /\ in_issue =>
                current_section
                   = MarkedSection(Append(lines, <<>>), Append(cls, "blank"), Len(lines) + 1)

C22_Step ==
    (pc = "loop" /\ pc' = "loop" /\ Len(lines') = Len(lines) + 1) =>
       LET line == lines'[Len(lines')]
       IN /\ HeaderOf(line) # None =>
                /\ current_section' = "none"
                /\ issues' = issues \o current_issue
                /\ \A sec \in {"description", "objectives", "acceptance"} :
                      current_issue'[1][sec] = <<>>
          /\ HeaderOf(line) = None => issues' = issues
          /\ (HeaderOf(line) = None /\ current_section = "none"
              /\ ~StartsWith(Strip(line), LabelsMarker)) =>
                /\ issues' = issues
                /\ current_issue' = current_issue

\* C22: the section pointer is reset by every issue header, and while it is
\* not set a line that is neither a header nor a labels line changes no
\* record, neither the open one nor an earlier one; a record starts with empty
\* sections and is no longer modified once the next header has been read; and
\* at every point of the loop each section of the open record is exactly the
\* text of the non-blank content lines that follow a marker of that section
\* inside the record's own block (after its header, before the terminator).
C22_SectionReset == []C22_State /\ [][C22_Step]_vars

\* a second record opened while the description of the first was being read:
\* the line that follows the second header belongs to no record
C22_Witness ==
    /\ pc = "returned"
    /\ lines = <<LineHeader1, LineDescription, LineA, LineHeader1, LineA>>
    /\ Len(issues) = 2
    /\ issues[1].description = <<"a">>
    /\ issues[2].description = <<>>

----------------------------------------------------------------------------
(* Properties of the runs of the two scripts, checked under Spec *)

\* the positions in the log of the gh issue create calls
Creates == {c \in 1..Len(calls) : calls[c].op = "create"}

\* C1: in the creation loop of both scripts every record of the batch is
\* attempted whatever failed before it: a create call is logged for each record
\* processed, created + failed is the number of records processed at every
\* point, the counts are those of the records reported created and failed, and
\* when the loop has ended every record of the batch has been processed
\* (created + failed = size of the batch).
C1_Isolation ==
    /\ created + failed = idx
    /\ Len(reported) = idx
    /\ created = Cardinality({k \in 1..idx : reported[k]})
    /\ failed = Cardinality({k \in 1..idx : ~reported[k]})
    /\ idx <= Len(Batch)
    /\ \A k \in 1..idx : \E c \in Creates : calls[c].rec = k
    /\ pc = "done" =>
          /\ idx = Len(Batch)
          /\ created + failed = Len(Batch)

\* three records, the create call of the second one fails: created=2, failed=1
C1_Witness ==
    /\ pc = "done"
    /\ Len(Batch) = 3
    /\ \A c \in Creates : calls[c].ok <=> calls[c].rec # 2
    /\ created = 2
    /\ failed = 1

\* check_and_create_issues.py has computed missing_issues
Reconciled ==
    /\ script = "check"
    /\ pc \in {"confirm", "loop", "done"} \/ (pc = "exited" /\ calls # <<>>)

\* the records whose title equals no key of the index
MissingPositions ==
    {k \in 1..Len(issues) : \A key \in DOMAIN existing_issues : key # issues[k].title}

\* C2: reconciliation partitions the parsed records by exact equality of the
\* title with a key of the index: missing_issues is the list, in the order of
\* the parsed records, of the records whose title equals no key; the others are
\* reported present with the number the index gives for their title; and no
\* call other than the listing has been made when the step ends.
C2_Reconcile ==
    Reconciled =>
       LET rest == (1..Len(issues)) \ MissingPositions
       IN /\ Len(missing_issues) = Cardinality(MissingPositions)
          /\ \A j \in 1..Len(missing_issues) :
                missing_issues[j] = issues[Nth(MissingPositions, j)]
          /\ Len(present) = Cardinality(rest)
          /\ \A j \in 1..Len(present) :
                /\ present[j].issue = issues[Nth(rest, j)]
                /\ present[j].existing_num = existing_issues[present[j].issue.title]
          /\ Len(missing_issues) + Len(present) = Len(issues)
          /\ pc = "confirm" => \A c \in 1..Len(calls) : calls[c].op = "list"

\* the index holds "Cd" and "Ab " (trailing space): record "Cd" is present,
\* record "Ab" is missing
C2_Witness ==
    /\ Reconciled
    /\ pc = "confirm"
    /\ DOMAIN existing_issues = {TitleCd, TitleAbSpace}
    /\ Len(issues) = 2
    /\ Len(missing_issues) = 1
    /\ missing_issues[1].title = TitleAb
    /\ Len(present) = 1
    /\ present[1].issue.title = TitleCd

\* C3: in a run of check_and_create_issues.py no create call is issued for a
\* record whose title is, at the time of the call, the title of an issue of the
\* remote tracker.
C3_NoDuplicateCreate ==
    script = "check" => \A c \in Creates : ~calls[c].existed

\* C4: the create calls of a run are made in the order of the batch, which is
\* ordered by non-decreasing record number; every record is visited once, in
\* its turn (one create call per record, a second one only after a failed
\* first one in create_issues_robust.py); each call is made for the record of
\* its turn; and no record has more than one successful create call.
C4_OnceInOrder ==
    /\ \A a \in Creates : \A b \in Creates :
          a < b => /\ calls[a].number <= calls[b].number
                   /\ calls[a].rec <= calls[b].rec
    /\ \A k \in 1..(Len(Batch) - 1) : Batch[k].number <= Batch[k + 1].number
    /\ \A c \in Creates :
          /\ calls[c].rec \in 1..idx
          /\ calls[c].number = Batch[calls[c].rec].number
          /\ calls[c].title = Batch[calls[c].rec].title
    /\ \A k \in 1..idx :
          LET mine == {c \in Creates : calls[c].rec = k}
          IN /\ Cardinality(mine) >= 1
             /\ Cardinality(mine) <= (IF script = "check" THEN 1 ELSE 2)
             /\ Cardinality({c \in mine : calls[c].ok}) <= 1
             /\ \A a \in mine : \A b \in mine : a < b => ~calls[a].ok

\* the document gives #2 before #1: the calls are made for #1, then #2
C4_Witness ==
    /\ script = "check"
    /\ pc = "done"
    /\ lines = <<LineHeader2, LineHeader1>>
    /\ Cardinality(Creates) = 2
    /\ \A c \in Creates : calls[c].ok
    /\ calls[Len(calls) - 1].number = 1
    /\ calls[Len(calls)].number = 2

\* the calls made for the k-th record
CallsOf(k) == {c \in 1..Len(calls) : calls[c].rec = k}

\* C5: in create_issues_robust.py, when the first create call of a record fails
\* with an error text holding "label" and "not found", a second create call
\* without labels follows; and whenever that second call succeeds an attach
\* call is made for each non-empty label of the record and the record is
\* reported as created.
C5_LabelFallback ==
    script = "robust" =>
       \A k \in 1..idx :
          LET first == CHOOSE c \in CallsOf(k) : \A d \in CallsOf(k) : c <= d
          IN (~calls[first].ok /\ LabelSignature(calls[first].err)) =>
                /\ calls[first + 1].op = "create"
                /\ calls[first + 1].rec = k
                /\ calls[first + 1].labels = <<>>
                /\ calls[first + 1].ok =>
                      /\ \A m \in 1..Len(Batch[k].labels) :
                            Batch[k].labels[m] # <<>> =>
                               \E c \in CallsOf(k) :
                                  /\ calls[c].op = "edit"
                                  /\ calls[c].labels = <<Batch[k].labels[m]>>
                      /\ reported[k]

\* C11: pacing in main of check_and_create_issues.py: after a record has been
\* processed the loop sleeps if and only if a record remains to be processed,
\* so that after idx records of a batch of n the number of pauses made is the
\* number of processed records that were not the last one (n - 1 at the end).
C11_Pacing ==
    (script = "check" /\ pc \in {"loop", "done"}) =>
       sleeps = Cardinality({k \in 1..idx : k < Len(missing_issues)})

\* the scenario: ISSUES.md holds the blocks #1 "Cd" and #2 "Ab", the index built
\* from the tracker is {"Cd": 1}, the run has ended and no create call failed
C12_Scenario ==
    /\ script = "check"
    /\ pc = "done"
    /\ lines = <<LineHeader1, LineHeader2>>
    /\ DOMAIN existing_issues = {TitleCd}
    /\ \A c \in Creates : calls[c].ok

\* what the scenario gives apart from the pauses: the missing list is the one
\* record #2, and one create call is made, for that record
C12_OneCreate ==
    /\ Len(missing_issues) = 1
    /\ missing_issues[1].number = 2
    /\ missing_issues[1].title = TitleAb
    /\ Cardinality(Creates) = 1
    /\ \A c \in Creates : calls[c].number = 2 /\ calls[c].title = TitleAb

\* C12 as stated: in the scenario missing = [#2], exactly one issue is created,
\* the loop sleeps once, and the run ends with created = 1 and failed = 0.
C12_EndToEnd ==
    C12_Scenario =>
       /\ C12_OneCreate
       /\ sleeps = 1
       /\ created = 1
       /\ failed = 0

\* C12 amended: in the scenario missing = [#2], exactly one create call is
\* made, the loop never sleeps (the only missing record is the last one), and
\* the run ends with created = 1 and failed = 0 when create_issue returned a
\* non-empty text, with created = 0 and failed = 1 when the call printed nothing.
C12_EndToEndNoSleep ==
    C12_Scenario =>
       /\ C12_OneCreate
       /\ sleeps = 0
       /\ created + failed = 1
       /\ reported[1] <=> (created = 1 /\ failed = 0 /\ Len(urls) = 1)

C12_Witness ==
    /\ C12_Scenario
    /\ existing_issues[TitleCd] = 1
    /\ created = 1
    /\ failed = 0
    /\ urls[1].kind = "url"
    /\ sleeps = 0

\* the records processed for which no create call succeeded
NotCreated == {k \in 1..idx : \A c \in Creates : calls[c].rec = k => ~calls[c].ok}

\* the close calls of the log that failed
NotClosed == {c \in 1..Len(calls) : calls[c].op = "close" /\ ~calls[c].ok}

\* C13: a run that went through its creation or closing loop ends with a
\* non-zero status if and only if at least one record was not created, or one
\* issue not closed; the status is zero when every call of the loop succeeded.
C13_ExitStatus ==
    pc = "done" =>
       /\ exit_status \in {0, 1}
       /\ exit_status # 0 <=> (NotCreated # {} \/ NotClosed # {})

\* the records of a list that carry a title
WithTitle(recs, title) == {k \in 1..Len(recs) : recs[k].title = title}

C17_State ==
    (script = "check" /\ pc \in {"confirm", "loop", "done"}) =>
       \A a \in 1..Len(issues) :
          issues[a].title \notin DOMAIN existing_issues =>
             /\ Cardinality(WithTitle(missing_issues, issues[a].title))
                   = Cardinality(WithTitle(issues, issues[a].title))
             /\ pc = "done" =>
                   Cardinality({c \in Creates : calls[c].title = issues[a].title})
                      = Cardinality(WithTitle(issues, issues[a].title))

C17_Step ==
    /\ pc # "list" => existing_issues' = existing_issues
    /\ pc \in {"confirm", "loop"} => missing_issues' = missing_issues

\* C17: the index is built once, by the listing, and nothing modifies it
\* afterwards, no create call in particular; the missing list computed from it
\* is not revised during the loop; so all the records that share a title absent
\* from the index are in the missing list, and each of them has had its create
\* call when the run ends.
C17_IndexSnapshot == []C17_State /\ [][C17_Step]_vars

\* the same block twice on an empty tracker: two create calls, the second one
\* for a title the first has just created
C17_Witness ==
    /\ script = "check"
    /\ pc = "done"
    /\ lines = <<LineHeader2, LineHeader2>>
    /\ existing_issues = <<>>
    /\ Len(missing_issues) = 2
    /\ Len(calls) = 3
    /\ calls[2].op = "create" /\ calls[2].ok /\ ~calls[2].existed
    /\ calls[3].op = "create" /\ calls[3].ok /\ calls[3].existed
    /\ remote = <<TitleAb, TitleAb>>

\* the processed records reported as created
ReportedCreated == {k \in 1..idx : reported[k]}

C16_State ==
    /\ created \in Nat
    /\ failed \in Nat
    /\ created + failed = idx
    /\ Len(urls) = created
    /\ created = Cardinality(ReportedCreated)
    /\ \A j \in 1..Len(urls) :
          /\ urls[j].kind \in {"url", "text"}
          /\ urls[j].kind = "url" =>
                remote[urls[j].id] = Batch[Nth(ReportedCreated, j)].title
    /\ \A j \in 1..(Len(urls) - 1) :
          (urls[j].kind = "url" /\ urls[j + 1].kind = "url") => urls[j].id < urls[j + 1].id

C16_Step ==
    /\ created' >= created
    /\ failed' >= failed
    /\ Len(urls') >= Len(urls)
    /\ SubSeq(urls', 1, Len(urls)) = urls
    /\ idx' = idx + 1 =>
          IF reported'[idx']
          THEN /\ created' = created + 1
               /\ failed' = failed
               /\ Len(urls') = Len(urls) + 1
          ELSE /\ created' = created
               /\ failed' = failed + 1
               /\ urls' = urls
    /\ idx' = idx => (created' = created /\ failed' = failed /\ urls' = urls)

\* C16: the report only grows during the creation loop: created and failed
\* never decrease and each processed record adds one to exactly one of them,
\* created + failed is the number of records processed, the list of URLs has
\* created entries, and each record reported created appends its URL at the
\* end of the list (the entries are those of the created records, in the order
\* the records were processed) while earlier entries are kept.
C16_ReportMonotone == []C16_State /\ [][C16_Step]_vars

\* three records: created, failed, created; two URLs in that order
C16_Witness ==
    /\ script = "check"
    /\ pc = "done"
    /\ reported = <<TRUE, FALSE, TRUE>>
    /\ created = 2
    /\ failed = 1
    /\ Len(urls) = 2
    /\ urls[1].kind = "url" /\ urls[2].kind = "url"
    /\ urls[1].id < urls[2].id

\* the create calls and the edit calls made for the k-th record
CreatesOf(k) == {c \in Creates : calls[c].rec = k}
EditsOf(k) == {c \in 1..Len(calls) : calls[c].op = "edit" /\ calls[c].rec = k}

\* C19: in create_issues_robust.py a record has at most two create calls; a
\* second one is made only right after a first one that failed with a text
\* holding "label" and "not found" (here "Label x Not Found"), and it carries
\* no label; a first call that fails with another text ("repo not found") has
\* no retry and no attach call, and the record is failed; when the call
\* without labels fails, whatever its text, no other call is made for the
\* record and the record is failed; no attach call is made unless the call
\* without labels has succeeded.
C19_RetryBound ==
    script = "robust" =>
       \A k \in 1..idx :
          LET first == CHOOSE c \in CreatesOf(k) : \A d \in CreatesOf(k) : c <= d
          IN /\ Cardinality(CreatesOf(k)) \in {1, 2}
             /\ \A c \in CreatesOf(k) :
                   c # first =>
                      /\ c = first + 1
                      /\ ~calls[first].ok
                      /\ calls[first].err = ErrLabelNotFound
                      /\ calls[c].labels = <<>>
             /\ (~calls[first].ok /\ calls[first].err = ErrNotFound) =>
                   /\ CreatesOf(k) = {first}
                   /\ EditsOf(k) = {}
                   /\ ~reported[k]
             /\ (~calls[first].ok /\ calls[first].err = ErrLabelNotFound) =>
                   Cardinality(CreatesOf(k)) = 2
             /\ \A c \in CreatesOf(k) :
                   (c # first /\ ~calls[c].ok) =>
                      /\ CallsOf(k) = {first, c}
                      /\ ~reported[k]
             /\ EditsOf(k) # {} =>
                   /\ Cardinality(CreatesOf(k)) = 2
                   /\ \A c \in CreatesOf(k) : c # first => calls[c].ok
                   /\ \A e \in EditsOf(k) : e > first + 1
             /\ calls[first].ok => CallsOf(k) = {first}

\* the first call fails with the signature, the call without labels fails with
\* the signature again: two calls, the record failed
C19_Witness ==
    /\ script = "robust"
    /\ pc = "done"
    /\ lines = <<LineHeader2, LineLabels>>
    /\ Len(calls) = 2
    /\ calls[1].op = "create" /\ calls[1].err = ErrLabelNotFound
    /\ calls[1].labels # <<>>
    /\ calls[2].op = "create" /\ calls[2].err = ErrLabelNotFound
    /\ calls[2].labels = <<>>
    /\ failed = 1

\* C20: pacing in main of create_issues_robust.py, whatever the numbers of the
\* records: after a record has been processed the loop sleeps if and only if
\* a record remains, so that after idx records of a batch of n the number of
\* pauses made is the number of processed records that were not the last one.
C20_Pacing ==
    (script = "robust" /\ pc \in {"loop", "done"}) =>
       sleeps = Cardinality({k \in 1..idx : k < Len(issues)})

----------------------------------------------------------------------------
(* Properties of close_duplicates.py, checked under SpecClose *)

\* C14: close_duplicate_issues makes one close call per id of
\* [start_num, end_num], in ascending order and each id once (the c-th call of
\* the log is the one of id start_num + c - 1), a failed call being followed by
\* the call of the next id; closed counts the calls that succeeded, failed the
\* others; on return closed + failed = end_num - start_num + 1, and no call is
\* made and both counts are 0 when start_num > end_num.
C14_CloseEach ==
    /\ \A c \in 1..Len(calls) :
          /\ calls[c].op = "close"
          /\ calls[c].number = start_num + c - 1
          /\ calls[c].number <= end_num
    /\ Len(calls) = issue_num - start_num
    /\ closed = Cardinality({c \in 1..Len(calls) : calls[c].ok})
    /\ failed = Cardinality({c \in 1..Len(calls) : ~calls[c].ok})
    /\ pc = "done" =>
          IF start_num > end_num
          THEN calls = <<>> /\ closed = 0 /\ failed = 0
          ELSE /\ Len(calls) = end_num - start_num + 1
               /\ closed + failed = end_num - start_num + 1

\* three ids, the call of the second one fails and the third is still closed
C14_Witness ==
    /\ pc = "done"
    /\ start_num = DefaultStart
    /\ end_num = DefaultStart + 2
    /\ Len(calls) = 3
    /\ calls[1].ok /\ ~calls[2].ok /\ calls[3].ok
    /\ closed = 2
    /\ failed = 1

----------------------------------------------------------------------------
(* Properties of the three scripts, checked under SpecAll *)

\* C15: while no repository is resolved no call is made to the tracker; and
\* when the resolution fails (gh repo view fails and no repository argument
\* is given) the run goes nowhere but to its end, with a non-zero status, the
\* log of list, create, edit and close calls being empty.
C15_RepoUnresolved ==
    /\ repo = None => calls = <<>>
    /\ (repo = None /\ pc # "start") =>
          /\ pc = "exited"
          /\ exit_status # 0
          /\ exit_status # -1
    /\ pc \notin {"start", "exited"} => repo # None

\* close_duplicates.py aborted on an unresolved repository
C15_Witness ==
    /\ script = "close"
    /\ pc = "exited"
    /\ repo = None
    /\ exit_status = 1
    /\ calls = <<>>

----------------------------------------------------------------------------
(* Properties of the composed body, checked under SpecBody *)

\* the three sections of a record with their headings, in the order of the body
SectionsOf(r) ==
    <<[h |-> HeadingDescription, t |-> r.description],
      [h |-> HeadingObjectifs, t |-> r.objectives],
      [h |-> HeadingAcceptance, t |-> r.acceptance]>>

\* the positions at which a text occurs in another
Occurrences(text, pat) ==
    {k \in 1..(Len(text) - Len(pat) + 1) : SubSeq(text, k, k + Len(pat) - 1) = pat}

BodyAsClaimed(r, b) ==
    LET sec == SectionsOf(r)
        there == {n \in 1..3 : sec[n].t # <<>>}
        size(n) == IF n \in there THEN Len(sec[n].h) + Len(sec[n].t) ELSE 0
        at(n) == CHOOSE k \in Occurrences(b, sec[n].h) : TRUE
    IN /\ there = {} => b = <<>>
       /\ there # {} =>
             Len(b) = size(1) + size(2) + size(3) + 2 * (Cardinality(there) - 1)
       /\ \A n \in 1..3 :
             IF n \in there
             THEN /\ Cardinality(Occurrences(b, sec[n].h)) = 1
                  /\ SubSeq(b, at(n), at(n) + size(n) - 1) = sec[n].h \o sec[n].t
                  /\ \/ at(n) = 1 /\ \A m \in there : n <= m
                     \/ /\ at(n) > 2
                        /\ SubSeq(b, at(n) - 2, at(n) - 1) = <<"\n", "\n">>
                        /\ \E m \in there : m < n
             ELSE Occurrences(b, sec[n].h) = {}
       /\ \A n \in there : \A m \in there : n < m => at(n) + size(n) + 2 = at(m)
                                                    \/ \E q \in there : n < q /\ q < m

\* C18: the body passed to gh issue create holds exactly the non-empty sections
\* of the record, each right after its own heading, in the order description,
\* objectives, acceptance criteria, two consecutive ones separated by one blank
\* line; an empty section leaves no heading, and a record whose three
\* sections are empty has the empty body.
C18_BodyComposed ==
    \A c \in Creates : BodyAsClaimed(Batch[calls[c].rec], calls[c].body)

\* description of two lines, no objectives, acceptance of one line:
\* "## Description\n\na\nb\n\n## Acceptance Criteria\n\na"
C18_Witness ==
    /\ Creates # {}
    /\ Len(Batch) = 1
    /\ Batch[1].description = <<"a", "\n", "b">>
    /\ Batch[1].objectives = <<>>
    /\ Batch[1].acceptance = <<"a">>
    /\ \A c \in Creates :
          calls[c].body = HeadingDescription \o <<"a", "\n", "b", "\n", "\n">>
                             \o HeadingAcceptance \o <<"a">>

\* the calls of the log that change the tracker
Mutations == {c \in 1..Len(calls) : calls[c].op \in {"create", "edit", "close"}}

\* the prompt was answered y or Y
Accepted(r) == r \in {<<"y">>, <<"Y">>}

C23_State ==
    /\ auto_yes => script = "robust"
    /\ Mutations # {} => (Accepted(response) \/ auto_yes)
    /\ pc \in {"loop", "close"} => (Accepted(response) \/ auto_yes)
    /\ pc = "exited" => Mutations = {}

C23_Step ==
    pc = "confirm" =>
       IF auto_yes \/ Accepted(response')
       THEN pc' \in {"loop", "close"} /\ calls' = calls
       ELSE /\ pc' = "exited"
            /\ exit_status' = 0
            /\ calls' = calls
            /\ Mutations = {}

\* C23: no create, edit or close call is in the log unless the prompt was
\* answered y or Y, or, in create_issues_robust.py only, the auto-confirm flag
\* was given; the loops are entered on no other answer; and a prompt answered
\* otherwise ends the run at once with status 0, no such call having been
\* made.
C23_ConfirmationGate == []C23_State /\ [][C23_Step]_vars

\* check_and_create_issues.py declined after the listing: status 0, the list
\* call is the only call made
C23_Witness ==
    /\ script = "check"
    /\ pc = "exited"
    /\ response = <<"n">>
    /\ missing_issues # <<>>
    /\ exit_status = 0
    /\ Len(calls) = 1
    /\ calls[1].op = "list"

\* the processed records of which a create call succeeded
Succeeded == {k \in 1..idx : \E c \in CreatesOf(k) : calls[c].ok}

\* C24: in the creation loop of both scripts a record is reported failed if
\* and only if no create call made for it succeeded (the call without labels
\* included); every record that has a successful create call is counted in
\* created and has its entry in the list of URLs, whatever the call printed.
C24_Outcome ==
    (script \in {"check", "robust"} /\ pc \in {"loop", "done"}) =>
       /\ \A k \in 1..idx : reported[k] <=> k \in Succeeded
       /\ created = Cardinality(Succeeded)
       /\ failed = idx - Cardinality(Succeeded)
       /\ Len(urls) = Cardinality(Succeeded)

====
